---- MODULE Spec2Model ----
(***************************************************************************)
(* Market-data publisher / subscriber pair with a unicast retransmission   *)
(* side channel (jz1452/market-exchange-simulator).                        *)
(*                                                                         *)
(*   include/ring_buffer.hpp   RingBuffer<T, Capacity>: push / get         *)
(*   include/protocol.hpp      TickPacket, RetransmitRequest               *)
(*   include/event_loop.hpp    EventLoop::poll                             *)
(*   src/publisher.cpp         tick timer, metrics timer, retransmit server*)
(*   src/subscriber.cpp        ingest loop, gap recovery, consumer dispatch*)
(***************************************************************************)
EXTENDS Integers, Sequences, FiniteSets, TLC

(***************************************************************************)
(* Bounds of the model.                                                    *)
(***************************************************************************)
\* RingBuffer's template parameter Capacity (publisher.cpp instantiates it
\* with RING_BUFFER_SIZE = 10000); the model checks a small ring.
Capacity == 2

\* Highest sequence number the publisher produces in a run of the model:
\* with a subscriber (MaxSeq), with any retransmit client and every tick
\* input (MaxPubSeq), and with two retransmit clients at once (MaxTwoSeq).
MaxSeq == 6
MaxPubSeq == 5
MaxTwoSeq == 4

\* Ticks per firing of the tick timer (10 in publisher.cpp, line 57).
BatchSize == 2

\* Longest log of consumer deliveries that the model records.
MaxDelivered == 3

\* Connections that the misbehaving retransmit client opens in one run.
MaxRogue == 1

\* Pushes of one run of the stand-alone ring specification.
MaxPushes == 3

\* Highest sequence number pushed in the stand-alone ring specification.
MaxRingSeq == 5

\* Ticks for which an open position is followed in the specification of the
\* shutdown report.
MaxHeld == 2

(***************************************************************************)
(* protocol.hpp                                                            *)
(***************************************************************************)
NUL == "\\0"

\* sizeof(TickPacket)
TickPacketSize == 32

\* A 4-byte, a 1-byte and a 3-byte entry of the 50-entry table of
\* publisher.cpp.
symbols ==
  << <<"A", "A", "P", "L">>, <<"V">>, <<"J", "P", "M">> >>

\* Inputs of one tick: what sym_dist draws, the published price that the
\* random walk arrives at, and what the clock reads.
\* Each input is <<sym_idx, published_price, now_ns>>.
TickInputs == { <<0, 100, 1000>>, <<1, 93, 1001>> }

\* std::strncpy(dst, src, n) into a zero-filled 4-byte field: the first n
\* bytes come from src (NUL padded when src is shorter), the rest of the
\* field keeps the zero bytes of `TickPacket tick{}`.
Strncpy(src, n) ==
  [i \in 1 .. 4 |-> IF i <= n /\ i <= Len(src) THEN src[i] ELSE NUL]

\* A plausible slip in the tick's construction: the quantity is computed from
\* the sequence number of the next tick.
MakeTickQuantityOfNext(seq, sym_idx, published_price, now_ns) ==
  [ sequence_num |-> seq,
    symbol       |-> Strncpy(symbols[sym_idx + 1], 4 - 1),
    price        |-> published_price,
    quantity     |-> 100 + ((seq + 1) % 50),
    timestamp    |-> now_ns ]

\* The tick built by one iteration of the batch loop.
MakeTick(seq, sym_idx, published_price, now_ns) ==
  [ sequence_num |-> seq,
    symbol       |-> Strncpy(symbols[sym_idx + 1], 4 - 1),
    price        |-> published_price,
    quantity     |-> 100 + (seq % 50),
    timestamp    |-> now_ns ]

\* `TickPacket last_sent_tick{}`: every field zero.
ZeroTick ==
  [ sequence_num |-> 0,
    symbol       |-> [i \in 1 .. 4 |-> NUL],
    price        |-> 0,
    quantity     |-> 0,
    timestamp    |-> 0 ]

(***************************************************************************)
(* ring_buffer.hpp                                                         *)
(***************************************************************************)
Slots == 0 .. (Capacity - 1)

\* buffer_ and seq_nums_ have no initialiser: a default-initialised ring
\* holds indeterminate values in every slot that was never written.  The
\* model lets each such slot hold any value of these sets.
IndeterminateSeqs == {0, MaxPubSeq + 1}
IndeterminateItems == {ZeroTick}

FreshRings ==
  { [buffer_ |-> b, seq_nums_ |-> q, max_seq_ |-> 0] :
      b \in [Slots -> IndeterminateItems], q \in [Slots -> IndeterminateSeqs] }

\* A plausible slip in push: the parallel sequence slot is not recorded.
PushForgetsSeq(r, seq_num, item) ==
  LET index == seq_num % Capacity
  IN  [ buffer_   |-> [r.buffer_ EXCEPT ![index] = item],
        seq_nums_ |-> r.seq_nums_,
        max_seq_  |-> IF seq_num > r.max_seq_ THEN seq_num ELSE r.max_seq_ ]

\* RingBuffer::push
Push(r, seq_num, item) ==
  LET index == seq_num % Capacity
  IN  [ buffer_   |-> [r.buffer_ EXCEPT ![index] = item],
        seq_nums_ |-> [r.seq_nums_ EXCEPT ![index] = seq_num],
        max_seq_  |-> IF seq_num > r.max_seq_ THEN seq_num ELSE r.max_seq_ ]

\* What get reports: found = FALSE is ABSENT.
Absent == [found |-> FALSE, item |-> ZeroTick]

\* A plausible slip in get: the eviction test is off by one (<  for <=).
GetOffByOne(r, seq_num) ==
  IF r.max_seq_ >= Capacity /\ seq_num < r.max_seq_ - Capacity
    THEN Absent
    ELSE LET index == seq_num % Capacity
         IN  IF r.seq_nums_[index] = seq_num
               THEN [found |-> TRUE, item |-> r.buffer_[index]]
               ELSE Absent

\* A plausible slip in get: a sequence counts as evicted one push early.
GetEvictsEarly(r, seq_num) ==
  IF r.max_seq_ >= Capacity /\ seq_num <= r.max_seq_ - (Capacity - 1)
    THEN Absent
    ELSE LET index == seq_num % Capacity
         IN  IF r.seq_nums_[index] = seq_num
               THEN [found |-> TRUE, item |-> r.buffer_[index]]
               ELSE Absent

\* RingBuffer::get
Get(r, seq_num) ==
  IF r.max_seq_ >= Capacity /\ seq_num <= r.max_seq_ - Capacity
    THEN Absent
    ELSE LET index == seq_num % Capacity
         IN  IF r.seq_nums_[index] = seq_num
               THEN [found |-> TRUE, item |-> r.buffer_[index]]
               ELSE Absent

(***************************************************************************)
(* State.                                                                  *)
(***************************************************************************)
Clients == {"sub", "rogue"}

Procs == {"publisher", "subscriber"}

\* A process that has not ended.
NotExited == [cause |-> "none", code |-> 0]

\* signal number of the interrupt signal
SIGINT == 2

\* `const int SMA_PERIOD`: the length of the price window.  The code's
\* window holds 100 prices, the model's this many.
SMA_PERIOD == 2

\* `SymbolState{}`.  pnl, trades and total_session_pnl are accumulators that
\* no branch reads: they are left out.
NewSymbolState ==
  [ prices      |-> <<>>,
    idx         |-> 0,
    sum         |-> 0,
    position    |-> 0,
    entry_price |-> 0,
    ticks_held  |-> 0 ]

\* current_sma and std_dev are locals of the block that applies the rule:
\* outside it there is nothing to compare with.
NoStats ==
  [ computed |-> FALSE, dip |-> FALSE, above_sma |-> FALSE,
    below_stop |-> FALSE ]

\* signal_handler has printed nothing.
NoReport == [printed |-> FALSE, open |-> {}]

\* The exit status that the parent of a process sees for exit(n) or for
\* `return n` from main: the low eight bits of n.
ExitCode(n) == n % 256

\* No request bytes written yet on a retransmit connection.
NoReq == -1

\* A retransmit connection as both ends see it.
\*   open     the client holds the connection
\*   req      the 8-byte request the client wrote, or NoReq
\*   closed   the client closed without writing a full request
\*   served   the publisher closed its end
\*   bytes    what the publisher wrote before closing (0 or TickPacketSize)
\*   item     the tick written, when bytes = TickPacketSize
\*   at_max   history: the ring's max_seq_ when the publisher ran get
NoConn ==
  [ open |-> FALSE, req |-> NoReq, closed |-> FALSE, served |-> FALSE,
    bytes |-> 0, item |-> ZeroTick, at_max |-> 0 ]

VARIABLES
  \* publisher.cpp
  ring,                \* ring_buffer
  seq_num,             \* next sequence number
  msgs_sent_this_sec,
  last_sent_tick,
  pub_pc,              \* "setup", "poll", "batch" (inside the tick
                       \* handler's loop), "recv" (blocked in recv on an
                       \* accepted client), "exited"
  batch,               \* loop counter of the tick handler
  client_fd,           \* the accepted client socket that the handler
                       \* holds open, "none" when it holds none
  \* transports
  wire,                \* ticks multicast so far; a receiver may see any of
                       \* them, any number of times, in any order, or never
  acceptq,             \* accept queue of the retransmit listener
  conn,                \* Clients -> connection
  \* subscriber.cpp
  expected_seq,
  sub_pc,              \* "setup", "recvfrom", "connect", "send", "recv",
                       \* "handler" (inside signal_handler for good),
                       \* "exited"
  tick,                \* the datagram of the current loop iteration
  missed_seq,          \* loop variable of the recovery loop
  \* the two processes
  exit_status,         \* Procs -> how the process ended and its exit code
  \* misbehaving retransmit client
  rogue_conns,         \* connections it has opened so far
  \* history
  pushLog,             \* every push so far, in order, as [seq, item,
                       \* sym_idx]: sym_idx is what sym_dist drew
  delivered,           \* ticks handed to the trading rule, in order
  recovery,            \* outcome of each exchange of the current loop
                       \* iteration, as [seq, connected, fd, req, bytes,
                       \* at_max]
  sub_conns,           \* connections the subscriber has opened so far; the
                       \* n-th one is identified as tcp_sock n
  lost,                \* sequences whose exchange returned fewer than 32
                       \* bytes, as [seq, at]: at is the number of ticks
                       \* delivered until then
  listener_eof,        \* an event of the retransmit listener has carried
                       \* EV_EOF
  \* subscriber.cpp: the trading rule
  strategy_state,      \* symbol -> SymbolState, for the symbols seen so far
  stats,               \* how tick.price compares with the window's
                       \* statistics (current_sma, std_dev), once computed
  report,              \* what signal_handler has printed
  last_written         \* history: symbol -> the price most recently
                       \* written into its window

pubVars == <<seq_num, msgs_sent_this_sec, last_sent_tick, pub_pc, batch,
             client_fd>>
netVars == <<wire, acceptq, conn>>
tradeVars == <<strategy_state, stats, report, last_written>>
subVars == <<expected_seq, sub_pc, tick, missed_seq, delivered, recovery,
             sub_conns, lost, tradeVars>>
procVars == <<exit_status, listener_eof>>

vars == <<ring, pushLog, pubVars, netVars, subVars, rogue_conns, procVars>>

(***************************************************************************)
(* The ring on its own, under any sequence of pushes.                      *)
(***************************************************************************)
RingSeqs == 0 .. MaxRingSeq

\* The state in which the publisher is at pub_at and the subscriber at
\* sub_at with nothing produced or received yet.
InitWith(pub_at, sub_at) ==
  /\ pushLog = <<>>
  /\ seq_num = 1
  /\ msgs_sent_this_sec = 0
  /\ last_sent_tick = ZeroTick
  /\ pub_pc = pub_at
  /\ batch = 0
  /\ client_fd = "none"
  /\ wire = {}
  /\ acceptq = <<>>
  /\ conn = [c \in Clients |-> NoConn]
  /\ expected_seq = 0
  /\ sub_pc = sub_at
  /\ tick = ZeroTick
  /\ missed_seq = 0
  /\ rogue_conns = 0
  /\ delivered = <<>>
  /\ recovery = <<>>
  /\ sub_conns = 0
  /\ lost = {}
  /\ exit_status = [p \in Procs |-> NotExited]
  /\ listener_eof = FALSE
  /\ strategy_state = [k \in {} |-> NewSymbolState]
  /\ stats = NoStats
  /\ report = NoReport
  /\ last_written = [k \in {} |-> 0]

\* Both processes have set up their sockets: the publisher enters its event
\* loop, the subscriber its ingest loop.
InitRest == InitWith("poll", "recvfrom")

InitRing ==
  /\ ring \in FreshRings
  /\ InitRest

RingPush(s, in) ==
  /\ Len(pushLog) < MaxPushes
  /\ LET t == MakeTick(s, in[1], in[2], in[3])
     IN  /\ ring' = Push(ring, s, t)
         /\ pushLog' = Append(pushLog, [seq |-> s, item |-> t,
                                        sym_idx |-> in[1]])
  /\ UNCHANGED <<pubVars, netVars, subVars, rogue_conns, procVars>>

NextRing == \E s \in RingSeqs, in \in TickInputs : RingPush(s, in)

SpecRing == InitRing /\ [][NextRing]_vars

(***************************************************************************)
(* publisher.cpp: the handler that EventLoop::poll runs for each event.    *)
(* poll hands the events of one kevent call to the handler one after the   *)
(* other; each handler runs to completion before the next event is taken.  *)
(***************************************************************************)
Outcomes == {"sent", "dropped", "failed"}

\* A plausible slip: a dropped datagram is not recorded in the ring.
RingAfterTickSkipsDropped(r, seq, t, outcome) ==
  IF outcome = "dropped" THEN r ELSE Push(r, seq, t)

\* ring_buffer.push(seq_num, tick), before the drop simulation and the send.
RingAfterTick(r, seq, t, outcome) == Push(r, seq, t)

\* A plausible slip: the ring is given the tick before its price is set.
PushedTickBeforePrice(t) == [t EXCEPT !.price = 0]

\* The tick handed to ring_buffer.push: the finished tick.
PushedTick(t) == t

\* The tick timer was delivered: enter the batch loop.
PubTickTimer ==
  /\ pub_pc = "poll"
  /\ pub_pc' = "batch"
  /\ batch' = 0
  /\ UNCHANGED <<ring, pushLog, seq_num, msgs_sent_this_sec, last_sent_tick,
                 client_fd, netVars, subVars, rogue_conns, procVars>>

\* One iteration of the batch loop.  outcome: the datagram went out
\* ("sent"), the drop simulation withheld it ("dropped"), or sendto
\* returned an error ("failed").
PubTick(sym_idx, published_price, now_ns, outcome) ==
  /\ pub_pc = "batch"
  /\ LET t == MakeTick(seq_num, sym_idx, published_price, now_ns)
     IN  /\ ring' = RingAfterTick(ring, seq_num, PushedTick(t), outcome)
         /\ pushLog' = Append(pushLog, [seq |-> seq_num, item |-> t,
                                        sym_idx |-> sym_idx])
         /\ wire' = IF outcome = "sent" THEN wire \cup {t} ELSE wire
         /\ msgs_sent_this_sec' =
              IF outcome = "sent" THEN msgs_sent_this_sec + 1
                                  ELSE msgs_sent_this_sec
         /\ last_sent_tick' = t
  /\ seq_num' = seq_num + 1
  /\ batch' = batch + 1
  /\ pub_pc' = IF batch + 1 < BatchSize THEN "batch" ELSE "poll"
  /\ UNCHANGED <<client_fd, acceptq, conn, subVars, rogue_conns, procVars>>

\* The metrics timer was delivered.
PubMetrics ==
  /\ pub_pc = "poll"
  /\ msgs_sent_this_sec' = 0
  /\ UNCHANGED <<ring, pushLog, seq_num, last_sent_tick, pub_pc, batch,
                 client_fd, netVars, subVars, rogue_conns, procVars>>

\* ring_buffer.get(req.missed_sequence_num, recovery_tick)
Lookup(r, req) == Get(r, req)

\* recv returned a full request: look the tick up, write it if it is there,
\* close.
Answer(c) ==
  LET got == Lookup(ring, conn[c].req)
  IN  [conn[c] EXCEPT !.served = TRUE,
                      !.bytes  = IF got.found THEN TickPacketSize ELSE 0,
                      !.item   = got.item,
                      !.at_max = ring.max_seq_]

\* recv returned fewer than 8 bytes because the peer closed: log, close.
\* Nothing is written.
Hangup(c) == [conn[c] EXCEPT !.served = TRUE]

\* What the handler does with accepted client c once recv has returned.
AfterRecv(c) ==
  IF conn[c].req # NoReq THEN Answer(c) ELSE Hangup(c)

RecvReturns(c) == conn[c].req # NoReq \/ conn[c].closed

\* A plausible slip: the client socket is closed on the path of a full
\* request only.
CloseOnFullRequestOnly(fd, full) == IF full THEN "none" ELSE fd

\* close(client_fd), the last statement of the handler on every path: the
\* client socket that the handler holds afterwards.  full: recv had
\* returned a full request.
Close(fd, full) == "none"

\* A plausible slip: the connection taken is the newest one.
NextClientNewest(q) == q[Len(q)]

\* accept(tcp_sock, ...) takes the first connection of the queue of
\* completed connections.
NextClient(q) == Head(q)

\* The listener is readable: accept the head of the queue and run the
\* exchange.  recv(MSG_WAITALL) on the blocking client socket returns at
\* once when the request (or the peer's close) is already there, and
\* otherwise blocks the event-loop thread.
PubAccept ==
  /\ pub_pc = "poll"
  /\ acceptq # <<>>
  /\ LET c == NextClient(acceptq)
     IN  /\ acceptq' = Tail(acceptq)
         /\ IF RecvReturns(c)
              THEN /\ conn' = [conn EXCEPT ![c] = AfterRecv(c)]
                   /\ client_fd' = Close(c, conn[c].req # NoReq)
                   /\ UNCHANGED pub_pc
              ELSE /\ pub_pc' = "recv"
                   /\ client_fd' = c
                   /\ UNCHANGED conn
  /\ UNCHANGED <<ring, pushLog, seq_num, msgs_sent_this_sec, last_sent_tick,
                 batch, wire, subVars, rogue_conns, procVars>>

\* The blocked recv returns: the rest of the handler runs.
PubRecvReturns ==
  /\ pub_pc = "recv"
  /\ RecvReturns(client_fd)
  /\ conn' = [conn EXCEPT ![client_fd] = AfterRecv(client_fd)]
  /\ pub_pc' = "poll"
  /\ client_fd' = Close(client_fd, conn[client_fd].req # NoReq)
  /\ UNCHANGED <<ring, pushLog, seq_num, msgs_sent_this_sec, last_sent_tick,
                 batch, wire, acceptq, subVars, rogue_conns, procVars>>

(***************************************************************************)
(* A retransmit client that does not follow the protocol: it connects and  *)
(* then writes a request for any sequence number, or closes without        *)
(* writing, or does neither.                                               *)
(***************************************************************************)
RogueReqs == 0 .. (MaxPubSeq + 1)

RogueConnect ==
  /\ ~conn["rogue"].open
  /\ rogue_conns < MaxRogue
  /\ rogue_conns' = rogue_conns + 1
  /\ conn' = [conn EXCEPT !["rogue"] = [NoConn EXCEPT !.open = TRUE]]
  /\ acceptq' = Append(acceptq, "rogue")
  /\ UNCHANGED <<ring, pushLog, pubVars, wire, subVars, procVars>>

RogueSend(s) ==
  /\ conn["rogue"].open
  /\ conn["rogue"].req = NoReq
  /\ ~conn["rogue"].closed
  /\ conn' = [conn EXCEPT !["rogue"].req = s]
  /\ UNCHANGED <<ring, pushLog, pubVars, wire, acceptq, subVars, rogue_conns,
                 procVars>>

RogueClose ==
  /\ conn["rogue"].open
  /\ conn["rogue"].req = NoReq
  /\ ~conn["rogue"].closed
  /\ conn' = [conn EXCEPT !["rogue"].closed = TRUE]
  /\ UNCHANGED <<ring, pushLog, pubVars, wire, acceptq, subVars, rogue_conns,
                 procVars>>

\* The client reads what the publisher wrote, if anything, and closes.
RogueRead ==
  /\ conn["rogue"].served
  /\ conn' = [conn EXCEPT !["rogue"] = NoConn]
  /\ UNCHANGED <<ring, pushLog, pubVars, wire, acceptq, subVars, rogue_conns,
                 procVars>>

(***************************************************************************)
(* subscriber.cpp: the ingest loop.                                        *)
(***************************************************************************)
\* A plausible slip: the gap test without the test for the first tick.
IsGapNoSentinel(expected, seq) == seq > expected

\* The gap test at the head of the loop body.
IsGap(expected, seq) == expected # 0 /\ seq > expected

\* The rest of the loop body after the gap block: the cursor moves to
\* tick.sequence_num + 1 and the tick goes to the trading rule.
FinishIteration(t) ==
  /\ expected_seq' = t.sequence_num + 1
  /\ delivered' = Append(delivered, t)
  /\ sub_pc' = "recvfrom"

\* recvfrom returned a 32-byte datagram.
SubRecvfrom(t) ==
  /\ sub_pc = "recvfrom"
  /\ t \in wire
  /\ Len(delivered) < MaxDelivered
  /\ tick' = t
  /\ recovery' = <<>>
  /\ IF IsGap(expected_seq, t.sequence_num)
       THEN /\ missed_seq' = expected_seq
            /\ sub_pc' = "connect"
            /\ UNCHANGED <<expected_seq, delivered>>
       ELSE /\ FinishIteration(t)
            /\ UNCHANGED missed_seq
  /\ UNCHANGED <<ring, pushLog, pubVars, netVars, sub_conns, lost,
                 rogue_conns, tradeVars, procVars>>

\* ++missed_seq, then either the next exchange or, when the loop is over,
\* the rest of the loop body for the tick that showed the gap.
NextMissed ==
  /\ missed_seq' = missed_seq + 1
  /\ IF missed_seq + 1 < tick.sequence_num
       THEN /\ sub_pc' = "connect"
            /\ UNCHANGED <<expected_seq, delivered>>
       ELSE FinishIteration(tick)

\* The publisher's retransmit listener exists.
Listening == pub_pc \notin {"setup", "exited"}

\* connect_tcp_client succeeded: the connection is in the listener's
\* accept queue.
SubConnect ==
  /\ sub_pc = "connect"
  /\ Listening
  /\ conn' = [conn EXCEPT !["sub"] = [NoConn EXCEPT !.open = TRUE]]
  /\ acceptq' = Append(acceptq, "sub")
  /\ sub_pc' = "send"
  /\ sub_conns' = sub_conns + 1
  /\ UNCHANGED <<ring, pushLog, pubVars, wire, expected_seq, tick,
                 missed_seq, delivered, recovery, lost, rogue_conns,
                 tradeVars, procVars>>

\* send(tcp_sock, &req, sizeof(req), 0) with req = {missed_seq}; the
\* subscriber then waits in recv.
SubSend ==
  /\ sub_pc = "send"
  /\ conn' = [conn EXCEPT !["sub"].req = missed_seq]
  /\ sub_pc' = "recv"
  /\ UNCHANGED <<ring, pushLog, pubVars, wire, acceptq, expected_seq, tick,
                 missed_seq, delivered, recovery, sub_conns, lost,
                 rogue_conns, tradeVars, procVars>>

\* connect_tcp_client threw: the exception is caught inside the loop.
SubConnectFails ==
  /\ sub_pc = "connect"
  /\ recovery' = Append(recovery, [seq |-> missed_seq, connected |-> FALSE,
                                   fd |-> 0, req |-> NoReq,
                                   bytes |-> 0, at_max |-> 0])
  /\ NextMissed
  /\ UNCHANGED <<ring, pushLog, pubVars, netVars, tick, sub_conns, lost,
                 rogue_conns, tradeVars, procVars>>

\* recv returned after the publisher closed: 32 bytes are logged as
\* recovered, fewer as failed; close.
SubRecvResponse ==
  /\ sub_pc = "recv"
  /\ conn["sub"].served
  /\ recovery' = Append(recovery, [seq |-> missed_seq, connected |-> TRUE,
                                   fd |-> sub_conns,
                                   req |-> conn["sub"].req,
                                   bytes |-> conn["sub"].bytes,
                                   at_max |-> conn["sub"].at_max])
  /\ lost' = IF conn["sub"].bytes = TickPacketSize
               THEN lost
               ELSE lost \cup {[seq |-> missed_seq, at |-> Len(delivered)]}
  /\ conn' = [conn EXCEPT !["sub"] = NoConn]
  /\ NextMissed
  /\ UNCHANGED <<ring, pushLog, pubVars, wire, acceptq, tick, sub_conns,
                 rogue_conns, tradeVars, procVars>>

(***************************************************************************)
(* Subscriber: the trading rule at the end of the loop body.  A signal can *)
(* be delivered between any two statements, so the window update and the   *)
(* entry are taken statement by statement where signal_handler reads what  *)
(* they write.                                                             *)
(***************************************************************************)
\* `std::string sym(tick.symbol)`: the characters before the first NUL.
StdString(field) ==
  LET nuls == { i \in DOMAIN field : field[i] = NUL }
      n    == IF nuls = {}
                THEN Len(field)
                ELSE (CHOOSE i \in nuls : \A j \in nuls : i <= j) - 1
  IN  SubSeq(field, 1, n)

\* `strategy_state[sym]`: operator[] inserts a SymbolState{} for a new key.
StateOf(sym) ==
  IF sym \in DOMAIN strategy_state THEN strategy_state[sym]
                                   ELSE NewSymbolState

\* strategy_state after `state`, the reference to strategy_state[sym], was
\* assigned st.
SetState(sym, st) ==
  [k \in DOMAIN strategy_state \cup {sym} |->
     IF k = sym THEN st ELSE strategy_state[k]]

\* The tick of this loop iteration gets to the trading rule:
\* `SymbolState &state = strategy_state[sym]`.
SubTradeTick(t) ==
  /\ sub_pc = "recvfrom"
  /\ tick' = t
  /\ strategy_state' = SetState(StdString(t.symbol),
                                StateOf(StdString(t.symbol)))
  /\ sub_pc' = "window"
  /\ UNCHANGED <<ring, pushLog, pubVars, netVars, expected_seq, missed_seq,
                 delivered, recovery, sub_conns, lost, rogue_conns, stats,
                 report, last_written, procVars>>

\* The price goes into the window: push_back while the window fills, then
\* over the oldest price, at idx.
SubWindowWrite ==
  /\ sub_pc = "window"
  /\ LET sym   == StdString(tick.symbol)
         state == strategy_state[sym]
     IN  /\ IF Len(state.prices) < SMA_PERIOD
              THEN /\ strategy_state' = SetState(sym,
                        [state EXCEPT !.prices = Append(@, tick.price),
                                      !.sum = @ + tick.price])
                   /\ sub_pc' = "stats"
              ELSE /\ strategy_state' = SetState(sym,
                        [state EXCEPT
                           !.sum = (@ - state.prices[state.idx + 1])
                                   + tick.price,
                           !.prices[state.idx + 1] = tick.price])
                   /\ sub_pc' = "advance"
         /\ last_written' =
              [k \in DOMAIN last_written \cup {sym} |->
                 IF k = sym THEN tick.price ELSE last_written[k]]
  /\ UNCHANGED <<ring, pushLog, pubVars, netVars, expected_seq, tick,
                 missed_seq, delivered, recovery, sub_conns, lost,
                 rogue_conns, stats, report, procVars>>

\* `state.idx = (state.idx + 1) % SMA_PERIOD`
SubWindowAdvance ==
  /\ sub_pc = "advance"
  /\ LET sym   == StdString(tick.symbol)
         state == strategy_state[sym]
     IN  strategy_state' = SetState(sym,
           [state EXCEPT !.idx = (@ + 1) % SMA_PERIOD])
  /\ sub_pc' = "stats"
  /\ UNCHANGED <<ring, pushLog, pubVars, netVars, expected_seq, tick,
                 missed_seq, delivered, recovery, sub_conns, lost,
                 rogue_conns, stats, report, last_written, procVars>>

\* With a full window, current_sma and std_dev (at least 0.10) are computed
\* from its SMA_PERIOD prices.  The rule reads them in three comparisons
\* only:
\*   dip         tick.price <= current_sma - 2.0 * std_dev
\*   above_sma   tick.price >= current_sma
\*   below_stop  tick.price <= state.entry_price - 3.0 * std_dev
\* Which of them hold depends on the 100 prices of the window; each outcome
\* is an input here, except that a dip is below the average.
SubStats(dip, above_sma, below_stop) ==
  /\ sub_pc = "stats"
  /\ ~(dip /\ above_sma)
  /\ IF Len(strategy_state[StdString(tick.symbol)].prices) = SMA_PERIOD
       THEN /\ stats' = [ computed |-> TRUE, dip |-> dip,
                          above_sma |-> above_sma,
                          below_stop |-> below_stop ]
            /\ sub_pc' = "rule"
       ELSE /\ sub_pc' = "recvfrom"
            /\ UNCHANGED stats
  /\ UNCHANGED <<ring, pushLog, pubVars, netVars, expected_seq, tick,
                 missed_seq, delivered, recovery, sub_conns, lost,
                 rogue_conns, strategy_state, report, last_written,
                 procVars>>

\* The exits of a long position, tested after `state.ticks_held++` in the
\* order take profit, stop loss, time stop.
Exits(ticks_held) ==
  \/ stats.above_sma
  \/ stats.below_stop /\ ticks_held > 2
  \/ ticks_held > 50

\* The rule: buy on a dip when flat (`state.position = 1` is the first
\* statement of the entry); when long, count the tick and test the exits.
SubRule ==
  /\ sub_pc = "rule"
  /\ LET sym   == StdString(tick.symbol)
         state == strategy_state[sym]
     IN  IF state.position = 0 /\ stats.dip
           THEN /\ strategy_state' = SetState(sym,
                     [state EXCEPT !.position = 1])
                /\ sub_pc' = "entry"
           ELSE /\ sub_pc' = "recvfrom"
                /\ IF state.position = 1
                     THEN strategy_state' = SetState(sym,
                            [state EXCEPT
                               !.ticks_held = @ + 1,
                               !.position = IF Exits(state.ticks_held + 1)
                                              THEN 0 ELSE 1])
                     ELSE UNCHANGED strategy_state
  /\ stats' = NoStats
  /\ UNCHANGED <<ring, pushLog, pubVars, netVars, expected_seq, tick,
                 missed_seq, delivered, recovery, sub_conns, lost,
                 rogue_conns, report, last_written, procVars>>

\* The rest of the entry: `state.entry_price = tick.price` and
\* `state.ticks_held = 0`.
SubEntry ==
  /\ sub_pc = "entry"
  /\ LET sym   == StdString(tick.symbol)
         state == strategy_state[sym]
     IN  strategy_state' = SetState(sym,
           [state EXCEPT !.entry_price = tick.price, !.ticks_held = 0])
  /\ sub_pc' = "recvfrom"
  /\ UNCHANGED <<ring, pushLog, pubVars, netVars, expected_seq, tick,
                 missed_seq, delivered, recovery, sub_conns, lost,
                 rogue_conns, stats, report, last_written, procVars>>

\* signal_handler: the price at which an open position is marked.
MarketPrice(state) ==
  LET last_inserted_idx == IF state.idx = 0 THEN Len(state.prices) - 1
                                            ELSE state.idx - 1
  IN  state.prices[last_inserted_idx + 1]

\* signal_handler: the lines of the report, one for each open position.
Report ==
  { [ sym        |-> k,
      price      |-> MarketPrice(strategy_state[k]),
      unrealised |-> (MarketPrice(strategy_state[k])
                      - strategy_state[k].entry_price) * 100 ] :
    k \in { j \in DOMAIN strategy_state :
              /\ strategy_state[j].position = 1
              /\ strategy_state[j].prices # <<>> } }

(***************************************************************************)
(* Start and end of the two processes.                                     *)
(***************************************************************************)
\* Process p ends with `exit(n)` or `return n`.
Exit(p, why, n) ==
  exit_status' = [exit_status EXCEPT ![p] = [cause |-> why,
                                             code  |-> ExitCode(n)]]

\* publisher.cpp: the sockets, the event loop and its registrations are
\* set up.
PubSetup ==
  /\ pub_pc = "setup"
  /\ pub_pc' = "poll"
  /\ UNCHANGED <<ring, pushLog, seq_num, msgs_sent_this_sec, last_sent_tick,
                 batch, client_fd, netVars, subVars, rogue_conns, procVars>>

\* A step of the setup throws std::runtime_error: `catch` in main prints
\* "Fatal Error" and returns 1.
PubSetupFails ==
  /\ pub_pc = "setup"
  /\ pub_pc' = "exited"
  /\ Exit("publisher", "exception", 1)
  /\ UNCHANGED <<ring, pushLog, seq_num, msgs_sent_this_sec, last_sent_tick,
                 batch, client_fd, netVars, subVars, rogue_conns,
                 listener_eof>>

\* The publisher's sockets are closed with the process: a client whose
\* connection was still in the accept queue reads end-of-file.
Orphaned(c) ==
  IF conn[c].open /\ ~conn[c].served
    THEN [conn[c] EXCEPT !.served = TRUE]
    ELSE conn[c]

\* EventLoop::poll: kevent returns -1, poll throws, main returns 1.
PubPollFails ==
  /\ pub_pc = "poll"
  /\ pub_pc' = "exited"
  /\ Exit("publisher", "exception", 1)
  /\ acceptq' = <<>>
  /\ conn' = [c \in Clients |-> Orphaned(c)]
  /\ UNCHANGED <<ring, pushLog, seq_num, msgs_sent_this_sec, last_sent_tick,
                 batch, client_fd, wire, subVars, rogue_conns, listener_eof>>

\* poll hands the handler an event of the listener with EV_EOF set and no
\* connection to accept.  The handler drops is_eof, calls accept, which
\* returns -1, and returns; the event loop polls again.
PubListenerEof ==
  /\ pub_pc = "poll"
  /\ acceptq = <<>>
  /\ ~listener_eof
  /\ listener_eof' = TRUE
  /\ UNCHANGED <<ring, pushLog, pubVars, netVars, subVars, rogue_conns,
                 exit_status>>

\* subscriber.cpp: the multicast receiver is set up.
SubSetup ==
  /\ sub_pc = "setup"
  /\ sub_pc' = "recvfrom"
  /\ UNCHANGED <<ring, pushLog, pubVars, netVars, expected_seq, tick,
                 missed_seq, delivered, recovery, sub_conns, lost,
                 rogue_conns, tradeVars, procVars>>

\* create_udp_multicast_receiver throws: `catch` in main prints "Fatal
\* Error" and returns 1.
SubSetupFails ==
  /\ sub_pc = "setup"
  /\ sub_pc' = "exited"
  /\ Exit("subscriber", "exception", 1)
  /\ UNCHANGED <<ring, pushLog, pubVars, netVars, expected_seq, tick,
                 missed_seq, delivered, recovery, sub_conns, lost,
                 rogue_conns, tradeVars, listener_eof>>

\* recvfrom returned a negative value: "UDP Receive failed", break; the
\* loop is left and main returns 0.
SubRecvfromFails ==
  /\ sub_pc = "recvfrom"
  /\ sub_pc' = "exited"
  /\ Exit("subscriber", "recvfrom failed", 0)
  /\ UNCHANGED <<ring, pushLog, pubVars, netVars, expected_seq, tick,
                 missed_seq, delivered, recovery, sub_conns, lost,
                 rogue_conns, tradeVars, listener_eof>>

\* SIGINT is delivered, wherever main is: signal_handler prints the report
\* and calls exit(signum).  The handler reads strategy_state and writes to
\* std::cout, which main may be in the middle of changing: it either gets
\* to exit(signum) or never does (reaches = FALSE), and main does not go on
\* in either case.  A recovery connection that is open is closed with the
\* process; when the request was not written yet the publisher sees the
\* peer close.
SubSignal(reaches) ==
  /\ sub_pc \notin {"exited", "handler"}
  /\ IF reaches
       THEN /\ sub_pc' = "exited"
            /\ report' = [printed |-> TRUE, open |-> Report]
            /\ Exit("subscriber", "signal", SIGINT)
            /\ conn' = IF sub_pc = "send"
                         THEN [conn EXCEPT !["sub"].closed = TRUE]
                         ELSE conn
       ELSE /\ sub_pc' = "handler"
            /\ UNCHANGED <<exit_status, conn, report>>
  /\ UNCHANGED <<ring, pushLog, pubVars, wire, acceptq, expected_seq, tick,
                 missed_seq, delivered, recovery, sub_conns, lost,
                 rogue_conns, strategy_state, stats, last_written,
                 listener_eof>>

(***************************************************************************)
(* Specifications.                                                         *)
(***************************************************************************)
\* A run of the model ends the production of ticks after sequence number
\* last: the tick timer is not delivered any more and a batch under way
\* stops.
TickTimerStep(last) == seq_num <= last /\ PubTickTimer

TickStep(inputs, outcomes, last) ==
  /\ seq_num <= last
  /\ \E in \in inputs, o \in outcomes : PubTick(in[1], in[2], in[3], o)

Publisher(inputs, outcomes, last) ==
  \/ TickTimerStep(last)
  \/ TickStep(inputs, outcomes, last)
  \/ PubMetrics
  \/ PubAccept
  \/ PubRecvReturns

\* A retransmit client whose requests are for the sequences of reqs.
RogueAsking(reqs) ==
  \/ RogueConnect
  \/ \E s \in reqs : RogueSend(s)
  \/ RogueClose
  \/ RogueRead

Rogue == RogueAsking(RogueReqs)

Subscriber ==
  \/ \E t \in wire : SubRecvfrom(t)
  \/ SubConnect
  \/ SubSend
  \/ SubConnectFails
  \/ SubRecvResponse

Init ==
  /\ ring \in FreshRings
  /\ InitRest

\* The publisher with any retransmit client.
NextPub == Publisher(TickInputs, Outcomes, MaxPubSeq) \/ Rogue

SpecPub == Init /\ [][NextPub]_vars

\* The publisher's event loop under the scheduling that kqueue gives it: a
\* periodic timer keeps becoming ready, so its event is delivered again and
\* again (strong fairness: other handlers run in between); a handler that
\* can continue does continue.  Nothing is assumed of the clients.
NextStall == Publisher({<<0, 100, 1000>>}, {"sent"}, MaxSeq) \/ Rogue

FairSpec ==
  /\ Init
  /\ [][NextStall]_vars
  /\ SF_vars(TickTimerStep(MaxSeq))
  /\ WF_vars(TickStep({<<0, 100, 1000>>}, {"sent"}, MaxSeq))
  /\ WF_vars(PubAccept)
  /\ WF_vars(PubRecvReturns)

\* The publisher and one subscriber.  What a tick carries besides its
\* sequence number plays no part in the exchange: one input.
Next == Publisher({<<0, 100, 1000>>}, Outcomes, MaxSeq) \/ Subscriber

Spec == Init /\ [][Next]_vars

\* The publisher and two retransmit clients at once: the subscriber, and a
\* client that may ask for any sequence at any time, as the recovery client
\* of a second subscriber does.
NextTwo ==
  \/ Publisher({<<0, 100, 1000>>}, {"sent", "dropped"}, MaxTwoSeq)
  \/ Subscriber
  \/ RogueAsking(1 .. MaxTwoSeq)

SpecTwo == Init /\ [][NextTwo]_vars

\* The two processes from the start of main to their end.  A multicast
\* send either goes out or fails.
InitProc ==
  /\ ring \in FreshRings
  /\ InitWith("setup", "setup")

NextProc ==
  \/ PubSetup
  \/ PubSetupFails
  \/ Publisher({<<0, 100, 1000>>}, {"sent", "failed"}, MaxPubSeq)
  \/ PubPollFails
  \/ PubListenerEof
  \/ SubSetup
  \/ SubSetupFails
  \/ Subscriber
  \/ SubRecvfromFails
  \/ \E reaches \in BOOLEAN : SubSignal(reaches)

SpecProc == InitProc /\ [][NextProc]_vars

\* The ticks that reach the trading rule: symbol and price are what the rule
\* reads.
TradeTicks(sym_idxs, prices) ==
  { MakeTick(1, i, p, 0) : i \in sym_idxs, p \in prices }

Trading ==
  \/ SubWindowWrite
  \/ SubWindowAdvance
  \/ \E dip, above_sma, below_stop \in BOOLEAN :
       SubStats(dip, above_sma, below_stop)
  \/ SubRule
  \/ SubEntry

\* The trading rule on the ticks of one symbol, whatever their prices do.
NextRule ==
  \/ \E t \in TradeTicks({0}, {100, 93}) : SubTradeTick(t)
  \/ Trading

SpecRule == Init /\ [][NextRule]_vars

\* The trading rule on the ticks of two symbols and the interrupt signal, at
\* any statement.  A position is followed for MaxHeld ticks.
NextReport ==
  \/ \E t \in TradeTicks({0, 1}, {100, 93}) :
       /\ StateOf(StdString(t.symbol)).position = 1 =>
            StateOf(StdString(t.symbol)).ticks_held < MaxHeld
       /\ SubTradeTick(t)
  \/ Trading
  \/ \E reaches \in BOOLEAN : SubSignal(reaches)

SpecReport == Init /\ [][NextReport]_vars

(***************************************************************************)
(* History operators over pushLog.                                         *)
(***************************************************************************)
PushedSeqs == { pushLog[i].seq : i \in DOMAIN pushLog }

\* Index of the latest push of sequence s (s \in PushedSeqs).
LastPushOf(s) ==
  CHOOSE i \in DOMAIN pushLog :
    /\ pushLog[i].seq = s
    /\ \A j \in DOMAIN pushLog : pushLog[j].seq = s => j <= i

\* Highest sequence pushed so far (pushLog non-empty).
MaxPushed ==
  CHOOSE m \in PushedSeqs : \A s \in PushedSeqs : s <= m

LaterPushes(i) == { j \in DOMAIN pushLog : j > i }

Found(t) == [found |-> TRUE, item |-> t]

(***************************************************************************)
(* C4 (as claimed): after push(s, t), get(s) returns t in every later      *)
(* state reached by fewer than Capacity further pushes whose sequence      *)
(* numbers are all strictly greater than s.                                *)
(***************************************************************************)
C4_AsClaimed ==
  \A i \in DOMAIN pushLog :
    LET s == pushLog[i].seq
    IN  ( /\ Cardinality(LaterPushes(i)) < Capacity
          /\ \A j \in LaterPushes(i) : pushLog[j].seq > s )
        => Get(ring, s) = Found(pushLog[i].item)

(***************************************************************************)
(* C4 (amended): after push(s, t), get(s) returns t in every later state   *)
(* reached by fewer than Capacity further pushes whose sequence numbers    *)
(* are all strictly greater than s, provided no push so far, earlier or    *)
(* later, carried a sequence number of s + Capacity or more.               *)
(***************************************************************************)
C4_RetainedWithinWindow ==
  \A i \in DOMAIN pushLog :
    LET s == pushLog[i].seq
    IN  ( /\ Cardinality(LaterPushes(i)) < Capacity
          /\ \A j \in LaterPushes(i) : pushLog[j].seq > s
          /\ \A j \in DOMAIN pushLog : pushLog[j].seq < s + Capacity )
        => Get(ring, s) = Found(pushLog[i].item)

\* A push followed by Capacity - 1 further pushes of greater sequence
\* numbers inside its window, and get still returns its item.
C4_Witness ==
  \E i \in DOMAIN pushLog :
    LET s == pushLog[i].seq
    IN  /\ Cardinality(LaterPushes(i)) = Capacity - 1
        /\ \A j \in LaterPushes(i) : pushLog[j].seq > s
        /\ \A j \in DOMAIN pushLog : pushLog[j].seq < s + Capacity
        /\ Get(ring, s) = Found(pushLog[i].item)

(***************************************************************************)
(* C5: for every pushed sequence s with s <= max_seq - Capacity, get(s) is *)
(* ABSENT; and when the highest pushed sequence is exactly Capacity,       *)
(* get(0) is ABSENT and get(1) returns the tick pushed with sequence 1.    *)
(***************************************************************************)
C5_EvictedIsAbsent ==
  /\ \A s \in PushedSeqs :
       s <= ring.max_seq_ - Capacity => ~Get(ring, s).found
  /\ (pushLog # <<>> /\ MaxPushed = Capacity) =>
       /\ ~Get(ring, 0).found
       /\ 1 \in PushedSeqs =>
            Get(ring, 1) = Found(pushLog[LastPushOf(1)].item)

\* Sequences 0, 1 and Capacity were pushed, Capacity is the highest: 0 is
\* reported ABSENT although it was pushed, 1 is still there.
C5_Witness ==
  /\ {0, 1, Capacity} \subseteq PushedSeqs
  /\ MaxPushed = Capacity
  /\ ~Get(ring, 0).found
  /\ Get(ring, 1).found

(***************************************************************************)
(* C1 (as claimed): each sequence number handed to the trading rule is     *)
(* strictly greater than the one handed to it immediately before.          *)
(***************************************************************************)
C1_StrictlyAscendingDelivery ==
  \A i \in DOMAIN delivered :
    i > 1 => delivered[i].sequence_num > delivered[i - 1].sequence_num

(***************************************************************************)
(* C2 (as claimed): a missing sequence whose exchange returned 32 bytes is *)
(* handed to the trading rule, and when the recovery loop is over the      *)
(* trading rule has received the recovered ticks of the gap in ascending   *)
(* order followed by the tick that showed the gap.                         *)
(***************************************************************************)
RecoveredSeqs ==
  LET full == SelectSeq(recovery, LAMBDA e : e.bytes = TickPacketSize)
  IN  [k \in DOMAIN full |-> full[k].seq]

\* The loop iteration that has just ended went through the recovery loop.
RecoveryOver == sub_pc = "recvfrom" /\ recovery # <<>>

C2_RecoveredTicksDelivered ==
  /\ \A k \in DOMAIN RecoveredSeqs :
       \E i \in DOMAIN delivered :
         delivered[i].sequence_num = RecoveredSeqs[k]
  /\ RecoveryOver =>
       LET n == Len(delivered)
           r == Len(RecoveredSeqs)
       IN  /\ n >= r + 1
           /\ delivered[n] = tick
           /\ \A k \in 1 .. r :
                delivered[n - r - 1 + k].sequence_num = RecoveredSeqs[k]

(***************************************************************************)
(* C3 (as claimed): a 32-byte datagram with tick.seq < expected_seq, once  *)
(* the subscriber is synchronised, is discarded: nothing is handed to the  *)
(* trading rule, no retransmit exchange starts and expected_seq keeps its  *)
(* value.                                                                  *)
(***************************************************************************)
C3_LateTickDiscarded ==
  [][ ( /\ sub_pc = "recvfrom"
        /\ subVars' # subVars
        /\ expected_seq # 0
        /\ tick'.sequence_num < expected_seq )
      => ( /\ delivered' = delivered
           /\ expected_seq' = expected_seq
           /\ sub_pc' = "recvfrom" ) ]_vars

(***************************************************************************)
(* C10 (as claimed): when every retransmit exchange of a gap took place,   *)
(* a gap of Capacity - 1 missing sequences has every request answered with *)
(* a 32-byte tick, and a gap of Capacity + 1 missing sequences has at      *)
(* least one request answered with 0 bytes.                                *)
(***************************************************************************)
AllConnected == \A k \in DOMAIN recovery : recovery[k].connected

C10_AsClaimed ==
  (RecoveryOver /\ AllConnected) =>
    /\ Len(recovery) = Capacity - 1 =>
         \A k \in DOMAIN recovery : recovery[k].bytes = TickPacketSize
    /\ Len(recovery) = Capacity + 1 =>
         \E k \in DOMAIN recovery : recovery[k].bytes = 0

(***************************************************************************)
(* C10 (amended): when every retransmit exchange of a gap took place, a    *)
(* gap of Capacity - 1 missing sequences has every request answered with a *)
(* 32-byte tick provided the publisher produced no tick after the one that *)
(* showed the gap before it served the request, and a gap of Capacity + 1  *)
(* missing sequences has at least one request answered with 0 bytes.       *)
(***************************************************************************)
C10_GapBoundary ==
  (RecoveryOver /\ AllConnected) =>
    /\ Len(recovery) = Capacity - 1 =>
         \A k \in DOMAIN recovery :
           recovery[k].at_max = tick.sequence_num =>
             recovery[k].bytes = TickPacketSize
    /\ Len(recovery) = Capacity + 1 =>
         \E k \in DOMAIN recovery : recovery[k].bytes = 0

\* A gap of Capacity - 1 sequences, each served while the tick that showed
\* the gap was still the latest, and each recovered.
C10_Witness ==
  /\ RecoveryOver
  /\ AllConnected
  /\ Len(recovery) = Capacity - 1
  /\ \A k \in DOMAIN recovery :
       /\ recovery[k].at_max = tick.sequence_num
       /\ recovery[k].bytes = TickPacketSize

\* A gap of Capacity + 1 sequences, every exchange of which took place.
C10_WitnessLargeGap ==
  /\ RecoveryOver
  /\ AllConnected
  /\ Len(recovery) = Capacity + 1
  /\ \E k \in DOMAIN recovery : recovery[k].bytes = 0

(***************************************************************************)
(* C6 (as claimed): get(seq) is ABSENT for every sequence number that was  *)
(* never pushed, in every reachable state of the ring, the freshly         *)
(* constructed one included; and the publisher answers a retransmit        *)
(* request for 0 or for a sequence above max_seq with 0 bytes.             *)
(***************************************************************************)
C6_NeverPushedIsAbsent ==
  /\ \A s \in RogueReqs : s \notin PushedSeqs => ~Get(ring, s).found
  /\ \A c \in Clients :
       ( /\ conn[c].served
         /\ (conn[c].req = 0 \/ conn[c].req > conn[c].at_max) )
       => conn[c].bytes = 0

(***************************************************************************)
(* C7: a retransmit request for a sequence s that the publisher has        *)
(* produced and not yet evicted (s > max_seq - Capacity) is answered with  *)
(* 32 bytes that are the tick produced for s, field by field; and every    *)
(* datagram on the wire is the tick produced for its sequence number.      *)
(***************************************************************************)
Retained(s, max) == s >= 1 /\ s <= max /\ s > max - Capacity

C7_RetransmitIsOriginalTick ==
  /\ \A c \in Clients :
       (conn[c].served /\ Retained(conn[c].req, conn[c].at_max)) =>
         /\ conn[c].bytes = TickPacketSize
         /\ conn[c].item = pushLog[conn[c].req].item
  /\ \A t \in wire :
       /\ t.sequence_num \in DOMAIN pushLog
       /\ t = pushLog[t.sequence_num].item

\* A request for a retained sequence whose datagram never went out was
\* answered with that tick.
C7_Witness ==
  /\ conn["rogue"].served
  /\ Retained(conn["rogue"].req, conn["rogue"].at_max)
  /\ conn["rogue"].bytes = TickPacketSize
  /\ conn["rogue"].item = pushLog[conn["rogue"].req].item
  /\ conn["rogue"].item \notin wire

(***************************************************************************)
(* C8: the publisher numbers its ticks 1, 2, 3, ... with no skip and no    *)
(* reuse, and every tick, whether its datagram went out, was dropped by    *)
(* the drop simulation or failed to send, is in the ring before the next   *)
(* tick is produced.                                                       *)
(***************************************************************************)
C8_DenseSequenceNumbers ==
  /\ Len(pushLog) = seq_num - 1
  /\ \A i \in DOMAIN pushLog :
       pushLog[i].seq = i /\ pushLog[i].item.sequence_num = i
  /\ seq_num > 1 =>
       /\ ring.max_seq_ = seq_num - 1
       /\ Get(ring, seq_num - 1) = Found(pushLog[seq_num - 1].item)

\* A tick whose datagram never went out took its sequence number, is the
\* latest in the ring, and an earlier tick did go out.
C8_Witness ==
  /\ seq_num > 2
  /\ pushLog[seq_num - 1].item \notin wire
  /\ pushLog[seq_num - 2].item \in wire
  /\ Get(ring, seq_num - 1) = Found(pushLog[seq_num - 1].item)

(***************************************************************************)
(* C9 (as claimed): once the publisher has accepted a retransmit client    *)
(* and waits for its request, it eventually produces another tick, whether *)
(* or not the client ever writes or closes.                                *)
(***************************************************************************)
C9_NoIndefiniteStall ==
  \A n \in 1 .. MaxSeq :
    (pub_pc = "recv" /\ seq_num = n) ~> (seq_num > n)

(***************************************************************************)
(* C11 (as claimed): for a tick that shows a gap the subscriber issues     *)
(* exactly one retransmit request for each missing sequence m in           *)
(* [expected_seq, tick.seq), in ascending order and each on a connection   *)
(* of its own; it takes no other datagram in while the exchanges last, and *)
(* only after the last one does it hand the tick to the trading rule and   *)
(* set expected_seq to tick.seq + 1.                                       *)
(***************************************************************************)
InRecovery == sub_pc \in {"connect", "send", "recv"}

\* The exchanges logged so far are for first, first + 1, ... in this order,
\* each asked for its own sequence and each had a connection of its own.
OneRequestEach(first) ==
  \A k \in DOMAIN recovery :
    /\ recovery[k].seq = first + k - 1
    /\ recovery[k].req = recovery[k].seq
    /\ recovery[k].fd > 0
    /\ \A j \in DOMAIN recovery : j # k => recovery[j].fd # recovery[k].fd

C11_OneRequestPerMissing ==
  /\ InRecovery =>
       /\ IsGap(expected_seq, tick.sequence_num)
       /\ missed_seq = expected_seq + Len(recovery)
       /\ missed_seq < tick.sequence_num
       /\ OneRequestEach(expected_seq)
       /\ sub_pc = "recv" => conn["sub"].req = missed_seq
       /\ delivered[Len(delivered)].sequence_num + 1 = expected_seq
  /\ RecoveryOver =>
       LET n     == Len(delivered)
           first == tick.sequence_num - Len(recovery)
       IN  /\ OneRequestEach(first)
           /\ n > 1
           /\ delivered[n] = tick
           /\ delivered[n - 1].sequence_num + 1 = first
           /\ expected_seq = tick.sequence_num + 1

(***************************************************************************)
(* C12: the first 32-byte tick the subscriber receives, whatever its       *)
(* sequence number, is handed to the trading rule and sets expected_seq to *)
(* its sequence + 1 with no retransmit exchange; and every later tick that *)
(* arrives with sequence = expected_seq is handed to the trading rule      *)
(* once, next in order, moves expected_seq on by one and starts no         *)
(* retransmit exchange.                                                    *)
(***************************************************************************)
\* recvfrom returned a 32-byte datagram in this step.
Ingest ==
  /\ sub_pc = "recvfrom"
  /\ sub_pc' \in {"recvfrom", "connect"}
  /\ subVars' # subVars

DeliveredAtOnce ==
  /\ delivered' = Append(delivered, tick')
  /\ expected_seq' = tick'.sequence_num + 1
  /\ sub_pc' = "recvfrom"
  /\ sub_conns' = sub_conns
  /\ conn' = conn
  /\ recovery' = <<>>

C12_InOrderNeedsNoRecovery ==
  [][ Ingest =>
        /\ expected_seq = 0 => (delivered = <<>> /\ DeliveredAtOnce)
        /\ (expected_seq # 0 /\ tick'.sequence_num = expected_seq)
             => DeliveredAtOnce ]_vars

\* The subscriber joined at a sequence number above 1 and has received a
\* run of ticks in order: each was delivered once, no connection was opened.
C12_Witness ==
  /\ Len(delivered) = MaxDelivered
  /\ delivered[1].sequence_num > 1
  /\ \A i \in 2 .. Len(delivered) :
       delivered[i].sequence_num = delivered[i - 1].sequence_num + 1
  /\ expected_seq = delivered[Len(delivered)].sequence_num + 1
  /\ sub_conns = 0
  /\ recovery = <<>>

(***************************************************************************)
(* C13 (as claimed): when the exchange for a missing sequence m returns    *)
(* fewer than 32 bytes, the subscriber carries on: it still requests every *)
(* remaining missing sequence of the gap, then hands the tick that showed  *)
(* the gap to the trading rule and sets expected_seq past it; and m is     *)
(* never handed to the trading rule afterwards.                            *)
(***************************************************************************)
ShortAnswer(e) == e.connected /\ e.bytes < TickPacketSize

C13_CarriesOn ==
  \A k \in DOMAIN recovery :
    ShortAnswer(recovery[k]) =>
      /\ \A j \in DOMAIN recovery :
           j > k => (recovery[j].seq = recovery[k].seq + (j - k)
                     /\ recovery[j].req = recovery[j].seq)
      /\ InRecovery => missed_seq = recovery[k].seq + (Len(recovery) - k) + 1
      /\ RecoveryOver =>
           /\ recovery[k].seq + (Len(recovery) - k) + 1 = tick.sequence_num
           /\ delivered[Len(delivered)] = tick
           /\ expected_seq = tick.sequence_num + 1

C13_NeverDelivered ==
  \A l \in lost :
    \A i \in DOMAIN delivered : i > l.at => delivered[i].sequence_num # l.seq

C13_LostStaysLost == C13_CarriesOn /\ C13_NeverDelivered

(***************************************************************************)
(* C14: on every connection that the publisher accepted it wrote either    *)
(* one 32-byte tick or nothing, a tick only in answer to a full request,   *)
(* and it closed the connection before the handler returned: between       *)
(* handlers the publisher holds no client socket, and a connection taken   *)
(* off the accept queue is either closed by the publisher or the one that  *)
(* the running handler waits on.                                           *)
(***************************************************************************)
Queued(c) == \E i \in DOMAIN acceptq : acceptq[i] = c

C14_ConnectionScopedToHandler ==
  /\ pub_pc # "recv" => client_fd = "none"
  /\ \A c \in Clients :
       /\ conn[c].bytes \in {0, TickPacketSize}
       /\ conn[c].bytes = TickPacketSize =>
            /\ conn[c].served
            /\ conn[c].req # NoReq
       /\ conn[c].served => client_fd # c
       /\ (conn[c].open /\ ~Queued(c) /\ ~conn[c].served) =>
            (pub_pc = "recv" /\ client_fd = c)

\* The peer closed without writing a request: the publisher wrote nothing,
\* closed, and is back in poll.
C14_Witness ==
  /\ conn["rogue"].closed
  /\ conn["rogue"].served
  /\ conn["rogue"].bytes = 0
  /\ pub_pc = "poll"
  /\ client_fd = "none"

\* A full request for a sequence that the ring does not hold: nothing is
\* written.
C14_WitnessAbsent ==
  /\ conn["rogue"].req # NoReq
  /\ conn["rogue"].served
  /\ conn["rogue"].bytes = 0
  /\ client_fd = "none"

\* A full request for a sequence that the ring holds: 32 bytes are written.
C14_WitnessPresent ==
  /\ conn["rogue"].req # NoReq
  /\ conn["rogue"].served
  /\ conn["rogue"].bytes = TickPacketSize
  /\ client_fd = "none"

(***************************************************************************)
(* C15: with two clients on the retransmit port at once, the publisher     *)
(* serves one connection at a time, in accept-queue order: the connection  *)
(* it answers is the one its handler holds or, between handlers, the head  *)
(* of the accept queue; the step that answers one connection leaves every  *)
(* other connection as it was; and a request for a retained sequence is    *)
(* answered, on the connection it came in on, with the complete 32-byte    *)
(* tick of that sequence, whatever ticks were produced in between.         *)
(***************************************************************************)
AnsweredNow(c) == conn'[c].served /\ ~conn[c].served

C15_OneConnectionAtATime ==
  [][ \A c \in Clients :
        AnsweredNow(c) =>
          /\ IF pub_pc = "recv"
               THEN c = client_fd
               ELSE acceptq # <<>> /\ c = Head(acceptq)
          /\ \A d \in Clients \ {c} : conn'[d] = conn[d]
          /\ conn'[c].req = conn[c].req
          /\ Retained(conn[c].req, ring.max_seq_) =>
               /\ conn'[c].bytes = TickPacketSize
               /\ conn'[c].item = pushLog[conn[c].req].item ]_vars

\* Both clients asked for the same retained sequence while the other's
\* connection was open, and each holds the complete tick of that sequence.
C15_Witness ==
  /\ conn["sub"].served
  /\ conn["rogue"].served
  /\ conn["sub"].req = conn["rogue"].req
  /\ \A c \in Clients :
       /\ conn[c].bytes = TickPacketSize
       /\ conn[c].item = pushLog[conn[c].req].item

(***************************************************************************)
(* C16 (as claimed): the subscriber ends with exit code 0 when the         *)
(* interrupt signal shuts it down, and each process ends with exit code 1  *)
(* when an exception reaches the catch of main.                            *)
(***************************************************************************)
C16_ExitCodes ==
  /\ exit_status["subscriber"].cause = "signal" =>
       exit_status["subscriber"].code = 0
  /\ \A p \in Procs :
       exit_status[p].cause = "exception" => exit_status[p].code = 1

(***************************************************************************)
(* C17 (as claimed): a per-packet I/O error does not end a main loop: the  *)
(* step in which recvfrom fails leaves the subscriber in its loop, about   *)
(* to call recvfrom again, with expected_seq unchanged, and the step in    *)
(* which sendto fails leaves the publisher in its event loop with the next *)
(* sequence number to produce.                                             *)
(***************************************************************************)
SendtoFails ==
  \E in \in TickInputs : PubTick(in[1], in[2], in[3], "failed")

C17_IoErrorKeepsLoop ==
  [][ /\ SubRecvfromFails =>
           /\ sub_pc' = "recvfrom"
           /\ expected_seq' = expected_seq
           /\ exit_status'["subscriber"] = NotExited
      /\ SendtoFails =>
           /\ pub_pc' \in {"batch", "poll"}
           /\ seq_num' = seq_num + 1
           /\ exit_status'["publisher"] = NotExited ]_vars

(***************************************************************************)
(* C18 (as claimed): once a connect to the retransmit port has failed in   *)
(* the recovery loop, the subscriber has ended through the catch of main   *)
(* (diagnostic, exit code 1): it neither goes on to the next missing       *)
(* sequence nor hands any further tick to the trading rule.                *)
(***************************************************************************)
ConnectFailed == \E k \in DOMAIN recovery : ~recovery[k].connected

C18_ConnectFailureIsFatal ==
  ConnectFailed =>
    /\ sub_pc = "exited"
    /\ exit_status["subscriber"] = [cause |-> "exception", code |-> 1]
    /\ ~recovery[Len(recovery)].connected
    /\ (delivered = <<>> \/ delivered[Len(delivered)] # tick)

(***************************************************************************)
(* C19 (as claimed): once the event multiplexer has reported end-of-file   *)
(* on the retransmit listener, the publisher has left its event loop and   *)
(* ended.                                                                  *)
(***************************************************************************)
C19_ListenerEofIsFatal ==
  listener_eof =>
    /\ pub_pc = "exited"
    /\ exit_status["publisher"].cause # "none"

(***************************************************************************)
(* C20 (as claimed): the symbol field of every tick produced, in the ring  *)
(* and on the wire, holds all bytes of the table entry that the symbol     *)
(* index selects, right-padded with NUL to 4 bytes; a 4-byte entry fills   *)
(* the field.                                                              *)
(***************************************************************************)
\* The 4-byte field that holds all of src, NUL padded.
Padded(src) == [i \in 1 .. 4 |-> IF i <= Len(src) THEN src[i] ELSE NUL]

C20_SymbolIsTableEntry ==
  /\ \A i \in DOMAIN pushLog :
       pushLog[i].item.symbol = Padded(symbols[pushLog[i].sym_idx + 1])
  /\ \A t \in wire :
       \E i \in DOMAIN pushLog :
         /\ pushLog[i].item = t
         /\ t.symbol = Padded(symbols[pushLog[i].sym_idx + 1])

(***************************************************************************)
(* C22 (as claimed): every retransmit request that the subscriber writes   *)
(* is for a sequence number above the highest sequence number it has       *)
(* handed to the trading rule so far, whatever the arrival pattern of the  *)
(* datagrams.                                                              *)
(***************************************************************************)
DeliveredSeqs == { delivered[i].sequence_num : i \in DOMAIN delivered }

HighestDelivered ==
  CHOOSE m \in DeliveredSeqs : \A s \in DeliveredSeqs : s <= m

C22_RequestsOnlyUnreceived ==
  (sub_pc = "recv" /\ delivered # <<>>) =>
    conn["sub"].req > HighestDelivered

(***************************************************************************)
(* C23: whenever the publisher is between two handler invocations, the     *)
(* ring's max_seq is seq_num - 1 and, of the ticks produced so far, get    *)
(* returns exactly the last min(Capacity, seq_num - 1): for each such s    *)
(* the tick produced for s, with sequence_num s and quantity               *)
(* 100 + (s mod 50); for each older s, nothing.                            *)
(***************************************************************************)
C23_RingHoldsLastTicks ==
  pub_pc = "poll" =>
    /\ ring.max_seq_ = seq_num - 1
    /\ \A s \in 1 .. (seq_num - 1) :
         IF s >= seq_num - Capacity
           THEN /\ Get(ring, s) = Found(pushLog[s].item)
                /\ Get(ring, s).item.sequence_num = s
                /\ Get(ring, s).item.quantity = 100 + (s % 50)
           ELSE Get(ring, s) = Absent

\* Between two handlers, after a retransmit request was answered and more
\* ticks than the ring holds were produced, one of them never multicast.
C23_Witness ==
  /\ pub_pc = "poll"
  /\ seq_num - 1 > Capacity
  /\ \E c \in Clients : conn[c].served /\ conn[c].bytes = TickPacketSize
  /\ \E i \in DOMAIN pushLog : pushLog[i].item \notin wire
  /\ Get(ring, 1) = Absent
  /\ Get(ring, seq_num - Capacity) = Found(pushLog[seq_num - Capacity].item)

\* The exits as the rule is described: on the counter's value before the
\* tick is counted.
ExitsAsClaimed(ticks_held) ==
  \/ stats.above_sma
  \/ stats.below_stop /\ ticks_held > 2
  \/ ticks_held > 50

(***************************************************************************)
(* C21 (as claimed): the ticks-held counter of a symbol is 0 at entry; on  *)
(* a later tick of a long symbol the exits are decided on the counter's    *)
(* value before that tick (take profit, else stop loss when the counter is *)
(* above 2, else time stop when it is above 50), and the counter is        *)
(* incremented only when no exit fires.                                    *)
(***************************************************************************)
C21_CounterAndExits ==
  [][ LET sym  == StdString(tick.symbol)
          held == strategy_state[sym].ticks_held
      IN  /\ SubEntry => strategy_state'[sym].ticks_held = 0
          /\ (SubRule /\ strategy_state[sym].position = 1) =>
               IF ExitsAsClaimed(held)
                 THEN /\ strategy_state'[sym].position = 0
                      /\ strategy_state'[sym].ticks_held = held
                 ELSE /\ strategy_state'[sym].position = 1
                      /\ strategy_state'[sym].ticks_held = held + 1
    ]_vars

\* C21, the exits alone, whatever the counter is left at: a tick closes a
\* long position exactly when an exit holds on the counter's value before
\* the tick.
C21_ExitsOnCountBeforeTick ==
  [][ LET sym == StdString(tick.symbol)
      IN  (SubRule /\ strategy_state[sym].position = 1) =>
            strategy_state'[sym].position =
              IF ExitsAsClaimed(strategy_state[sym].ticks_held) THEN 0 ELSE 1
    ]_vars

\* C21, the time stop alone: a position that neither takes profit nor stops
\* out is closed by the tick that finds the counter above 50.
C21_TimeStopOnCountBeforeTick ==
  [][ LET sym == StdString(tick.symbol)
      IN  ( /\ SubRule
            /\ strategy_state[sym].position = 1
            /\ ~stats.above_sma
            /\ ~stats.below_stop ) =>
            strategy_state'[sym].position =
              IF strategy_state[sym].ticks_held > 50 THEN 0 ELSE 1
    ]_vars

(***************************************************************************)
(* C24 (as claimed): whenever signal_handler has printed its report,       *)
(* wherever the ingest loop was, the report lists exactly the symbols      *)
(* whose position is long, each at the price of the most recent tick of    *)
(* that symbol written into its window, with unrealised profit             *)
(* (that price - entry_price) * 100.                                       *)
(***************************************************************************)
LongSymbols ==
  { k \in DOMAIN strategy_state : strategy_state[k].position = 1 }

C24_ReportMarksAtLatestPrice ==
  report.printed =>
    report.open =
      { [ sym        |-> k,
          price      |-> last_written[k],
          unrealised |-> (last_written[k] - strategy_state[k].entry_price)
                         * 100 ] : k \in LongSymbols }

\* C24, with the signal delivered only between two loop iterations.
C24_BetweenIterations ==
  [][ (sub_pc = "recvfrom" /\ SubSignal(TRUE)) =>
        report'.open =
          { [ sym        |-> k,
              price      |-> last_written[k],
              unrealised |-> (last_written[k]
                              - strategy_state[k].entry_price) * 100 ] :
            k \in LongSymbols } ]_vars

====
